---- MODULE Spec2Model ----
(***************************************************************************)
(* remote-fastboot: a TCP <-> USB bulk bridge (src/src/main.go).           *)
(*                                                                         *)
(* The model follows main(): startup, the accept loop behind               *)
(* netutil.LimitListener(ln, 1), the handshake, usbDeviceOpen, the relay   *)
(* loop netRead -> usbWrite -> usbRead -> netWrite and the teardown.       *)
(* Bytes are modelled as bytes: every netRead / netReadHandshake call      *)
(* wraps the connection in a fresh bufio.Reader, whose Read fetches up to  *)
(* defaultBufSize bytes from the socket in one conn.Read.                  *)
(***************************************************************************)
EXTENDS Integers, Sequences, FiniteSets, TLC

(* ------------------------------ bounds -------------------------------- *)
\* clients that may connect during one run
NumClients == 2
\* request frames in a client's script
MaxFrames == 2
\* payload bytes in a client's script, over all its frames
MaxPayload == 2
\* attached USB devices seen by one scan
MaxDevs == 2
\* bytes a bulk IN transfer returns
MaxResp == 1
\* payload bytes handed to one usbWrite call taken on its own
MaxData == 6
\* wMaxPacketSize of the bulk OUT endpoint of that call
MaxMps == 3

(* ------------------------- program constants -------------------------- *)
\* make([]byte, 4) in netReadHandshake
HandshakeLen == 4
\* make([]byte, 8) in netRead / netWrite
HeaderLen == 8
\* make([]byte, 256) in main
ResponseCap == 256
\* bufio.NewReader(conn): the reader's buffer size (bufio's default)
defaultBufSize == 4096

Clients == 1..NumClients
NoConn == 0

\* "FB01"
HandshakeToken == <<70, 66, 48, 49>>

Min(a, b) == IF a < b THEN a ELSE b

Take(s, n) == SubSeq(s, 1, Min(n, Len(s)))
Drop(s, n) == SubSeq(s, Min(n, Len(s)) + 1, Len(s))

(* --------------------------- frame encoding --------------------------- *)
\* MUTANT of PutUint64: the length written low byte first
PutUint64_LittleEndian(n) ==
    <<n % 256, (n \div 256) % 256, (n \div 65536) % 256, 0, 0, 0, 0, 0>>

\* binary.BigEndian.PutUint64(header, uint64(len(data))): len(data) is at
\* most ResponseCap, so the five high bytes are zero.
PutUint64(n) ==
    <<0, 0, 0, 0, 0, (n \div 65536) % 256, (n \div 256) % 256, n % 256>>

\* binary.BigEndian.Uint64(header), kept as three limbs so that no value of
\* the 64-bit length is lost: hi = bits 48..63, mid = bits 24..47,
\* lo = bits 0..23.
Uint64(h) ==
    [hi  |-> h[1] * 256 + h[2],
     mid |-> (h[3] * 256 + h[4]) * 256 + h[5],
     lo  |-> (h[6] * 256 + h[7]) * 256 + h[8]]

Size0 == [hi |-> 0, mid |-> 0, lo |-> 0]

\* make([]byte, size): a length of 2^48 or more is beyond the runtime's
\* maximum allocation and panics (makeslice: len out of range).
MakeslicePanics(sz) == sz.hi # 0

\* a length from 2^24 up to 2^48 (the client of the model asks for 2^40
\* bytes) is within the maximum allocation: the allocation can
\* succeed or exhaust memory, depending on the machine.
MakesliceMayExhaust(sz) == sz.hi = 0 /\ sz.mid # 0

\* size - got >= n, for a buffer of `sz` bytes of which `got` are filled
RemainingAtLeast(sz, got, n) ==
    sz.mid # 0 \/ sz.lo - got >= n

\* the buffer of `sz` bytes is full
Filled(sz, got) == sz.mid = 0 /\ sz.lo = got

\* min(size - got, n) for n < 2^24
RemainingMin(sz, got, n) ==
    IF RemainingAtLeast(sz, got, n) THEN n ELSE sz.lo - got

(* ----------------------------- USB devices ---------------------------- *)
\* An endpoint descriptor: bulk <=> TransferType() = libusb.BulkTransfer,
\* dir = Direction() (1 is IN), maxPacketSize = MaxPacketSize.
EpBulkIn == [bulk |-> TRUE, dir |-> 1, maxPacketSize |-> 2]
EpBulkOut(mps) == [bulk |-> TRUE, dir |-> 0, maxPacketSize |-> mps]
EpInterruptIn == [bulk |-> FALSE, dir |-> 1, maxPacketSize |-> 1]
NoEndpoint == [bulk |-> FALSE, dir |-> 0, maxPacketSize |-> 0]

\* What a scan reads of one attached device: whether ActiveConfigDescriptor
\* fails, NumInterfaces, the class / subclass / protocol of interface 0, its
\* endpoints and the serial number string.
FastbootDevice(serial, mps) ==
    [cfgErr |-> FALSE, numInterfaces |-> 1,
     class |-> 255, subClass |-> 66, protocol |-> 3,
     endpoints |-> <<EpBulkIn, EpBulkOut(mps)>>, serial |-> serial]

DeviceKinds ==
    { FastbootDevice("A", 1),
      FastbootDevice("B", 2),
      [FastbootDevice("A", 1) EXCEPT !.cfgErr = TRUE],
      [FastbootDevice("A", 1) EXCEPT !.numInterfaces = 0, !.endpoints = <<>>],
      [FastbootDevice("A", 1) EXCEPT !.numInterfaces = 2],
      [FastbootDevice("A", 1) EXCEPT !.class = 8, !.subClass = 6, !.protocol = 80],
      [FastbootDevice("A", 1) EXCEPT !.endpoints = <<EpInterruptIn, EpBulkOut(1)>>],
      [FastbootDevice("A", 1) EXCEPT !.endpoints = <<EpBulkIn>>] }

\* usbCtx.DeviceList(): every list of at most MaxDevs attached devices
DeviceLists == UNION { [1..n -> DeviceKinds] : n \in 0..MaxDevs }

Serials == {"", "A"}

\* the loop over ifaceDescriptor.EndpointDescriptors: the index (from 0) of
\* the last bulk endpoint whose direction is / is not 1, or -1
LastBulk(eps, isIn) ==
    LET hits == { i \in 1..Len(eps) : eps[i].bulk /\ ((eps[i].dir = 1) = isIn) }
    IN  IF hits = {} THEN -1
        ELSE (CHOOSE i \in hits : \A j \in hits : j <= i) - 1

ScanStart ==
    [deviceCount |-> 0, device |-> 0,
     endpointIn |-> NoEndpoint, endpointOut |-> NoEndpoint,
     shown |-> <<>>, serialOpened |-> <<>>, panic |-> FALSE]

\* the class / subclass / protocol test of usbDeviceOpen
SignatureMismatch(d) ==
    d.class # 255 \/ d.subClass # 66 \/ d.protocol # 3

\* configDescriptor.NumInterfaces > 1
TooManyInterfaces(d) == d.numInterfaces > 1

\* MUTANT of ScanStep: showDeviceInfo is called as soon as the signature
\* test is passed
ScanStep_ShowsSignature(st, d, i, serial, openable) ==
    LET inIdx == LastBulk(d.endpoints, TRUE)
        outIdx == LastBulk(d.endpoints, FALSE)
        seen == [st EXCEPT !.shown = Append(@, i)]
        opened == IF serial # ""
                    THEN [seen EXCEPT !.serialOpened = Append(@, i)]
                    ELSE seen
    IN  IF d.cfgErr THEN st
        ELSE IF TooManyInterfaces(d) THEN st
        ELSE IF d.numInterfaces = 0 THEN [st EXCEPT !.panic = TRUE]
        ELSE IF SignatureMismatch(d) THEN st
        ELSE IF inIdx < 0 \/ outIdx < 0 THEN seen
        ELSE IF serial # "" /\ i \notin openable THEN seen
        ELSE IF serial # "" /\ d.serial # serial THEN opened
        ELSE [opened EXCEPT
                !.endpointIn = d.endpoints[inIdx + 1],
                !.endpointOut = d.endpoints[outIdx + 1],
                !.device = i,
                !.deviceCount = @ + 1]

\* One iteration of the scan loop of usbDeviceOpen, on device i of the list.
\* `openable` is the set of devices whose Open() succeeds when the serial
\* number is to be read.  A device with no interface makes
\* SupportedInterfaces[0] panic (index out of range).
ScanStep(st, d, i, serial, openable) ==
    LET inIdx == LastBulk(d.endpoints, TRUE)
        outIdx == LastBulk(d.endpoints, FALSE)
        opened == IF serial # ""
                    THEN [st EXCEPT !.serialOpened = Append(@, i)]
                    ELSE st
    IN  IF d.cfgErr THEN st
        ELSE IF TooManyInterfaces(d) THEN st
        ELSE IF d.numInterfaces = 0 THEN [st EXCEPT !.panic = TRUE]
        ELSE IF SignatureMismatch(d) THEN st
        ELSE IF inIdx < 0 \/ outIdx < 0 THEN st
        ELSE IF serial # "" /\ i \notin openable THEN st
        ELSE IF serial # "" /\ d.serial # serial THEN opened
        ELSE [opened EXCEPT
                !.endpointIn = d.endpoints[inIdx + 1],
                !.endpointOut = d.endpoints[outIdx + 1],
                !.device = i,
                !.shown = Append(@, i),
                !.deviceCount = @ + 1]

\* for _, device := range devices { ... }: the panic ends the loop
Scan(devices, serial, openable) ==
    LET upTo[i \in 0..Len(devices)] ==
          IF i = 0 THEN ScanStart
          ELSE IF upTo[i - 1].panic THEN upTo[i - 1]
          ELSE ScanStep(upTo[i - 1], devices[i], i, serial, openable)
    IN  upTo[Len(devices)]

\* The tail of usbDeviceOpen: the deviceCount tests, dev.device.Open() and
\* ClaimInterface(0).
OpenStatus(st, openOK, claimOK) ==
    IF st.panic THEN "panic"
    ELSE IF st.deviceCount = 0 THEN "nodev"
    ELSE IF st.deviceCount > 1 THEN "multi"
    ELSE IF ~openOK THEN "openfail"
    ELSE IF ~claimOK THEN "claimfail"
    ELSE "ok"

\* MUTANT of HandleLeftOpen: no dev.handle.Close() when ClaimInterface fails
HandleLeftOpen_AfterClaimFail(status) == status \in {"ok", "claimfail"}

\* whether dev.handle is open when usbDeviceOpen returns: dev.device.Open()
\* succeeded, and the handle was not closed again because ClaimInterface(0)
\* failed
HandleLeftOpen(status) == status \in {"ok", "claimfail"} /\ status # "claimfail"

\* usbDeviceOpen(serial) on the device list `devices`; openable, openOK and
\* claimOK are what the USB library answers.  status "ok" leaves one handle
\* open with interface 0 claimed; every handle opened to read a serial
\* number is closed on return (defer handle.Close()).
usbDeviceOpen(devices, serial, openable, openOK, claimOK) ==
    LET st == Scan(devices, serial, openable)
    IN  [status |-> OpenStatus(st, openOK, claimOK),
         deviceCount |-> st.deviceCount,
         device |-> st.device,
         endpointIn |-> st.endpointIn,
         endpointOut |-> st.endpointOut,
         shown |-> st.shown,
         serialOpened |-> st.serialOpened,
         serialClosed |-> st.serialOpened,
         handleOpen |-> HandleLeftOpen(OpenStatus(st, openOK, claimOK)),
         interfaceClaimed |-> OpenStatus(st, openOK, claimOK) = "ok"]

(* --------------------------- client scripts --------------------------- *)
\* the payload of the i-th request frame of a script: L bytes, each one
\* naming its frame and its position
Payload(i, L) == [j \in 1..L |-> 10 * i + j]

\* the concatenation of a sequence of sequences
Concat(ss) ==
    LET upTo[i \in 0..Len(ss)] == IF i = 0 THEN <<>> ELSE upTo[i - 1] \o ss[i]
    IN  upTo[Len(ss)]

\* a request frame as a client encodes it
Frame(p) == PutUint64(Len(p)) \o p

\* a well-formed client stream: the handshake token, then k frames
GoodScript(lens) ==
    LET frames == [i \in 1..Len(lens) |-> Payload(i, lens[i])]
    IN  [bytes |-> HandshakeToken \o Concat([i \in 1..Len(lens) |-> Frame(frames[i])]),
         frames |-> frames,
         wellFormed |-> TRUE]

BadScript(bytes) == [bytes |-> bytes, frames |-> <<>>, wellFormed |-> FALSE]

\* the sum of a sequence of numbers
Sum(ns) ==
    LET upTo[i \in 0..Len(ns)] == IF i = 0 THEN 0 ELSE upTo[i - 1] + ns[i]
    IN  upTo[Len(ns)]

GoodScripts ==
    { GoodScript(lens) :
        lens \in { l \in UNION { [1..k -> 0..MaxPayload] : k \in 0..MaxFrames } :
                     Sum(l) <= MaxPayload } }

BadScripts ==
    { BadScript(<<70, 66, 48, 50>>),                       \* "FB02"
      BadScript(<<70, 66>>),                               \* a short token
      BadScript(<<>>),                                     \* nothing at all
      BadScript(HandshakeToken \o <<255, 255, 255, 255, 255, 255, 255, 255>>),
      BadScript(HandshakeToken \o <<0, 0, 1, 0, 0, 0, 0, 0>> \o <<7>>),
      BadScript(HandshakeToken \o PutUint64(2) \o <<11>>), \* a truncated frame
      BadScript(HandshakeToken \o <<0, 0, 0>>) }           \* a truncated header

Scripts == GoodScripts \cup BadScripts
NoScript == BadScript(<<0>>)

\* What main keeps of a usbDeviceOpen call: the error or not, and dev
Outcome(r) ==
    [status |-> r.status, endpointIn |-> r.endpointIn, endpointOut |-> r.endpointOut,
     handleOpen |-> r.handleOpen, interfaceClaimed |-> r.interfaceClaimed]

\* every way a usbDeviceOpen(serial) call can end, over the device lists and
\* over what the USB library answers: pairs <<serial, outcome>>
OpenOutcomes ==
    { p : p \in
          UNION { { <<serial, Outcome(usbDeviceOpen(devices, serial, openable,
                                                      openOK, claimOK))>> :
                        serial \in Serials,
                        openable \in SUBSET (1..Len(devices)),
                        openOK \in BOOLEAN, claimOK \in BOOLEAN } :
                    devices \in DeviceLists } }

(* ------------------------------- state -------------------------------- *)
VARIABLES
    pc,             \* where main() is
    exitCause,      \* why the process ended ("" while it runs)
    after,          \* where usbDeviceClose returns to
    failed,         \* the step that ended the last session: a relay step,
                    \* or usbDeviceOpen
    sem,            \* slots of the LimitListener that are taken
    backlog,        \* connections established and not yet accepted
    conns,          \* per client: the server side of its connection
    conn,           \* main's conn variable (NoConn: none)
    script,         \* per client: the byte stream it sends
    rpos,           \* per client: bytes of the stream read off the socket
    netOut,         \* per client: the latest message the server wrote to the
                    \* connection (the handshake reply or a response frame)
    rbuf,           \* the current bufio.Reader's buffered, unread bytes
    header,         \* the header being read
    size,           \* netRead's size
    data,           \* netRead's data, as far as filled
    dev,            \* main's dev
    handles,        \* device handles the process holds open
    claimed,        \* interfaces the process holds claimed
    offset,         \* usbWrite's offset
    chunk,          \* usbWrite's i
    response,       \* main's response buffer (its first bytes)
    respN,          \* n of the last usbRead
    written,        \* this session's payloads handed to usbWrite
    usbOut,         \* this request's chunks transferred to the device
    usbIn,          \* bulk IN transfers issued in this session
    replies,        \* response frames written in this session
    openedFor,      \* connections for which usbDeviceOpen was called
    scan            \* the usbDeviceOpen call under study, when one is

netVars == <<sem, backlog, conns, conn, script, rpos, netOut>>
readVars == <<rbuf, header, size, data>>
usbVars == <<dev, handles, claimed, offset, chunk, response, respN, written,
             usbOut, usbIn, replies, openedFor>>
procVars == <<pc, exitCause, after, failed>>
vars == <<procVars, netVars, readVars, usbVars, scan>>

NoDev == [endpointIn |-> NoEndpoint, endpointOut |-> NoEndpoint]
NoScan == [phase |-> "none"]

\* the first MaxResp bytes of make([]byte, 256)
ZeroResponse == [j \in 1..MaxResp |-> 0]

\* netutil.LimitListener(ln, 1)
ListenLimit == 1

Init ==
    /\ pc = "start"
    /\ exitCause = ""
    /\ after = "accept"
    /\ failed = ""
    /\ sem = 0
    /\ backlog = <<>>
    /\ conns = [c \in Clients |-> "idle"]
    /\ conn = NoConn
    /\ script = [c \in Clients |-> NoScript]
    /\ rpos = [c \in Clients |-> 0]
    /\ netOut = [c \in Clients |-> <<>>]
    /\ rbuf = <<>>
    /\ header = <<>>
    /\ size = Size0
    /\ data = <<>>
    /\ dev = NoDev
    /\ handles = 0
    /\ claimed = 0
    /\ offset = 0
    /\ chunk = 0
    /\ response = ZeroResponse
    /\ respN = 0
    /\ written = <<>>
    /\ usbOut = <<>>
    /\ usbIn = 0
    /\ replies = 0
    /\ openedFor = {}
    /\ scan = NoScan

(* ------------------------------ helpers ------------------------------- *)
\* log.Fatalf, or a panic that nothing recovers: the process ends
Exit(cause) ==
    /\ pc' = "exited"
    /\ exitCause' = cause
    /\ UNCHANGED <<after, failed>>

Goto(l) ==
    /\ pc' = l
    /\ UNCHANGED <<exitCause, after, failed>>

\* MUTANT of Fail: the error is logged and the relay loop goes on
Fail_Continue(step) ==
    /\ pc' = "netReadHeader"
    /\ failed' = step
    /\ UNCHANGED <<exitCause, after>>

\* a relay step returned an error: log it and break out of the relay loop
Fail(step) ==
    /\ pc' = "connClose"
    /\ failed' = step
    /\ UNCHANGED <<exitCause, after>>

\* bufio.Reader.Read(p) with len(p) = want > 0, on a reader holding `buf`,
\* when `sock` is what has arrived on the socket: buffered bytes are served
\* first; an empty buffer is refilled by ONE conn.Read of up to
\* defaultBufSize bytes (or, when want >= defaultBufSize, p itself is read
\* into).  conn.Read returns what has arrived, up to the length asked for;
\* sock is what it leaves in the socket.
BufioRead(buf, sock, want) ==
    IF buf # <<>>
      THEN [p |-> Take(buf, want), buf |-> Drop(buf, want), sock |-> sock]
    ELSE IF want >= defaultBufSize
      THEN [p |-> Take(sock, want), buf |-> <<>>, sock |-> Drop(sock, want)]
    ELSE LET got == Take(sock, defaultBufSize)
         IN  [p |-> Take(got, want), buf |-> Drop(got, want),
              sock |-> Drop(sock, defaultBufSize)]

\* the client's bytes not yet read off the socket
Unread(c) == Drop(script[c].bytes, rpos[c])

\* What a conn.Read may find arrived: when the reader has buffered bytes no
\* conn.Read is made; otherwise it waits for at least one byte, and any
\* nonempty prefix of the client's unread bytes may be there by then (the
\* bytes arrive in whatever segments the client and the network make)
Arrived(c) ==
    IF rbuf # <<>> THEN {<<>>}
    ELSE { Take(Unread(c), k) : k \in 1..Len(Unread(c)) }

\* conn.Read returns an error instead of bytes (io.EOF once the client has
\* closed its end, a reset at any time): only when a conn.Read is made
ReadFails == rbuf = <<>>

\* the socket position after a Read that found `sock` and left r.sock
Consumed(c, sock, r) == [rpos EXCEPT ![c] = @ + Len(sock) - Len(r.sock)]

\* bufio.NewReader(conn): a new reader starts with an empty buffer, and the
\* reader of the call before, with whatever it had buffered, is dropped
NewReader ==
    /\ rbuf' = <<>>
    /\ header' = <<>>
    /\ size' = Size0
    /\ data' = <<>>

\* conn.Close() of a LimitListener connection: closes the socket and gives
\* the listener's slot back; what the socket held goes with it
ConnClose(c) ==
    /\ conns' = [conns EXCEPT ![c] = "closed"]
    /\ sem' = sem - 1
    /\ conn' = NoConn
    /\ script' = [script EXCEPT ![c] = NoScript]
    /\ rpos' = [rpos EXCEPT ![c] = 0]
    /\ netOut' = [netOut EXCEPT ![c] = <<>>]
    /\ UNCHANGED backlog

\* MUTANT of HandshakeFails: only the length is tested
HandshakeFails_LengthOnly(n, hdr) == n # HandshakeLen

\* n != 4 || string(header) != "FB01"
HandshakeFails(n, hdr) == n # HandshakeLen \/ hdr # HandshakeToken

\* per-session USB bookkeeping, reset when a session's relay begins
FreshSession ==
    /\ offset' = 0
    /\ chunk' = 0
    /\ response' = ZeroResponse
    /\ respN' = 0
    /\ written' = <<>>
    /\ usbOut' = <<>>
    /\ usbIn' = 0
    /\ replies' = 0

\* What a usbDeviceOpen call leaves behind in the process
TakeDevice(r) ==
    /\ dev' = IF r.status = "ok"
                THEN [endpointIn |-> r.endpointIn, endpointOut |-> r.endpointOut]
                ELSE NoDev
    /\ handles' = handles + (IF r.handleOpen THEN 1 ELSE 0)
    /\ claimed' = claimed + (IF r.interfaceClaimed THEN 1 ELSE 0)

(* ------------------------------ startup ------------------------------- *)
\* usbCtx, err = libusb.NewContext(); if *argCheckDevice
NewContext ==
    /\ pc = "start"
    /\ \E ok \in BOOLEAN, argCheckDevice \in BOOLEAN :
         IF ok THEN Goto(IF argCheckDevice THEN "check" ELSE "listen")
               ELSE Exit("usbctx")
    /\ UNCHANGED <<netVars, readVars, usbVars, scan>>

\* dev, err := usbDeviceOpen(*argSerial); log.Fatalf on error;
\* usbDeviceClose(dev) follows.  p[1] is *argSerial, read by the call.
CheckDevice ==
    /\ pc = "check"
    /\ \E p \in OpenOutcomes :
       LET r == p[2]
       IN  /\ TakeDevice(r)
           /\ IF r.status = "ok"
                THEN /\ pc' = "usbRelease"
                     /\ after' = "listen"
                     /\ UNCHANGED <<exitCause, failed>>
              ELSE IF r.status = "panic" THEN Exit("panic: index out of range")
              ELSE Exit("check")
    /\ UNCHANGED <<netVars, readVars, offset, chunk, response, respN, written,
                   usbOut, usbIn, replies, openedFor, scan>>

\* ln, err := net.Listen("tcp", *argPort)
Listen ==
    /\ pc = "listen"
    /\ \E ok \in BOOLEAN : IF ok THEN Goto("accept") ELSE Exit("listen")
    /\ UNCHANGED <<netVars, readVars, usbVars, scan>>

(* ---------------------------- accept loop ----------------------------- *)
\* MUTANT of SlotFree: a listener without the limit
SlotFree_NoLimit == TRUE

\* limitListener.acquire: Accept goes on only when a slot is free
SlotFree == sem < ListenLimit

\* conn, _ := ln.Accept() returning a connection
Accept ==
    /\ pc = "accept"
    /\ SlotFree
    /\ backlog # <<>>
    /\ conn' = Head(backlog)
    /\ backlog' = Tail(backlog)
    /\ sem' = sem + 1
    /\ conns' = [conns EXCEPT ![Head(backlog)] = "accepted"]
    /\ NewReader
    /\ pc' = "handshake"
    /\ failed' = ""
    /\ UNCHANGED <<exitCause, after, script, rpos, netOut, usbVars, scan>>

\* conn, _ := ln.Accept() returning an error: conn is nil, and the Read of
\* netReadHandshake on it panics (nil pointer dereference)
AcceptError ==
    /\ pc = "accept"
    /\ SlotFree
    /\ Exit("panic: nil conn")
    /\ UNCHANGED <<netVars, readVars, usbVars, scan>>

\* the `continue` after a failed handshake: conn is not closed, so its slot
\* of the listener stays taken
HandshakeFailed ==
    /\ conn' = NoConn
    /\ NewReader
    /\ Goto("accept")
    /\ UNCHANGED <<sem, backlog, conns, script, netOut>>

\* netReadHandshake: one Read of io.ReadFull(reader, header)
ReadHandshake ==
    /\ pc = "handshake"
    /\ \E sock \in Arrived(conn) :
         LET r == BufioRead(rbuf, sock, HandshakeLen - Len(header))
             h == header \o r.p
         IN  /\ rpos' = Consumed(conn, sock, r)
             /\ IF Len(h) < HandshakeLen
                  THEN /\ header' = h
                       /\ rbuf' = r.buf
                       /\ Goto("handshake")
                       /\ UNCHANGED <<size, data, sem, backlog, conns, conn,
                                      script, netOut>>
                ELSE IF HandshakeFails(Len(h), h)
                  THEN HandshakeFailed
                ELSE /\ NewReader
                     /\ Goto("devopen")
                     /\ UNCHANGED <<sem, backlog, conns, conn, script, netOut>>
    /\ UNCHANGED <<usbVars, scan>>

\* netReadHandshake: a Read returns an error before 4 bytes were read
ReadHandshakeError ==
    /\ pc = "handshake"
    /\ ReadFails
    /\ HandshakeFails(Len(header), header)
    /\ HandshakeFailed
    /\ UNCHANGED <<rpos, usbVars, scan>>

\* MUTANT of DeviceOpen: the handshake reply is written whatever
\* usbDeviceOpen returned
DeviceOpen_AlwaysGreets ==
    /\ pc = "devopen"
    /\ \E p \in OpenOutcomes :
       LET r == p[2]
       IN  /\ TakeDevice(r)
           /\ IF r.status = "panic" THEN Exit("panic: index out of range")
              ELSE Goto("writeHandshake")
    /\ openedFor' = openedFor \cup {conn}
    /\ UNCHANGED <<netVars, readVars, offset, chunk, response, respN, written,
                   usbOut, usbIn, replies, scan>>

\* dev, err = usbDeviceOpen(*argSerial); p[1] is *argSerial
DeviceOpen ==
    /\ pc = "devopen"
    /\ \E p \in OpenOutcomes :
       LET r == p[2]
       IN  /\ TakeDevice(r)
           /\ IF r.status = "ok" THEN Goto("writeHandshake")
              ELSE IF r.status = "panic" THEN Exit("panic: index out of range")
              ELSE Goto("deviceError")
    /\ openedFor' = openedFor \cup {conn}
    /\ UNCHANGED <<netVars, readVars, offset, chunk, response, respN, written,
                   usbOut, usbIn, replies, scan>>

\* MUTANT of DeviceError: `continue` without conn.Close()
DeviceError_NoClose ==
    /\ pc = "deviceError"
    /\ conn' = NoConn
    /\ pc' = "accept"
    /\ failed' = "usbDeviceOpen"
    /\ UNCHANGED <<exitCause, after, sem, backlog, conns, script, rpos, netOut,
                   readVars, usbVars, scan>>

\* log.Printf("device error"); time.Sleep(time.Second); conn.Close(); continue
DeviceError ==
    /\ pc = "deviceError"
    /\ ConnClose(conn)
    /\ pc' = "accept"
    /\ failed' = "usbDeviceOpen"
    /\ UNCHANGED <<exitCause, after, readVars, usbVars, scan>>

(* ----------------------------- relay loop ----------------------------- *)
\* MUTANT of WriteHandshake: a failed write ends the session
WriteHandshake_BreaksOnError ==
    /\ pc = "writeHandshake"
    /\ \E ok \in BOOLEAN :
         /\ netOut' = [netOut EXCEPT ![conn] = IF ok THEN @ \o HandshakeToken ELSE @]
         /\ Goto(IF ok THEN "netReadHeader" ELSE "connClose")
    /\ NewReader
    /\ FreshSession
    /\ UNCHANGED <<sem, backlog, conns, conn, script, rpos,
                   dev, handles, claimed, openedFor, scan>>

\* netWriteHandshake(conn); its error is not looked at
WriteHandshake ==
    /\ pc = "writeHandshake"
    /\ \E ok \in BOOLEAN :
         netOut' = [netOut EXCEPT ![conn] = IF ok THEN @ \o HandshakeToken ELSE @]
    /\ NewReader
    /\ FreshSession
    /\ Goto("netReadHeader")
    /\ UNCHANGED <<sem, backlog, conns, conn, script, rpos,
                   dev, handles, claimed, openedFor, scan>>

\* netRead returned an error
NetReadFailed ==
    /\ NewReader
    /\ Fail("netRead")
    /\ UNCHANGED <<netVars, usbVars, scan>>

\* MUTANT of ChunkCount: the division without the rounding up
ChunkCount_Floor(len, mps) == len \div mps

\* (len(data) + MaxPacketSize - 1) / MaxPacketSize
ChunkCount(len, mps) == (len + mps - 1) \div mps

\* netRead returned data: it is handed to usbWrite
BeginUsbWrite(d) ==
    /\ written' = Append(written, d)
    /\ offset' = 0
    /\ chunk' = 0
    /\ usbOut' = <<>>
    /\ UNCHANGED <<dev, handles, claimed, response, respN, usbIn, replies,
                   openedFor>>

\* netRead: one Read of io.ReadFull(reader, header); with the 8th byte the
\* size is decoded and data allocated, and an empty payload is complete
ReadHeader ==
    /\ pc = "netReadHeader"
    /\ \E sock \in Arrived(conn) :
         LET r == BufioRead(rbuf, sock, HeaderLen - Len(header))
             h == header \o r.p
             sz == Uint64(h)
         IN  /\ rpos' = Consumed(conn, sock, r)
             /\ IF Len(h) < HeaderLen
                  THEN /\ header' = h
                       /\ rbuf' = r.buf
                       /\ Goto("netReadHeader")
                       /\ UNCHANGED <<size, data, usbVars>>
                ELSE IF MakeslicePanics(sz)
                  THEN /\ header' = h
                       /\ rbuf' = r.buf
                       /\ Exit("panic: makeslice: len out of range")
                       /\ UNCHANGED <<size, data, usbVars>>
                ELSE \/ /\ MakesliceMayExhaust(sz)
                        /\ header' = h
                        /\ rbuf' = r.buf
                        /\ Exit("fatal error: out of memory")
                        /\ UNCHANGED <<size, data, usbVars>>
                     \/ /\ ~Filled(sz, 0)
                        /\ header' = h
                        /\ rbuf' = r.buf
                        /\ size' = sz
                        /\ data' = <<>>
                        /\ Goto("netReadData")
                        /\ UNCHANGED usbVars
                     \/ /\ Filled(sz, 0)
                        /\ NewReader
                        /\ BeginUsbWrite(<<>>)
                        /\ Goto("usbWrite")
    /\ UNCHANGED <<sem, backlog, conns, conn, script, netOut, scan>>

\* netRead: a Read returns an error before the 8 header bytes
ReadHeaderError ==
    /\ pc = "netReadHeader"
    /\ ReadFails
    /\ Len(header) # HeaderLen
    /\ NetReadFailed

\* netRead: one Read of io.ReadFull(reader, data)
ReadData ==
    /\ pc = "netReadData"
    /\ \E sock \in Arrived(conn) :
         LET want == RemainingMin(size, Len(data), defaultBufSize)
             r == BufioRead(rbuf, sock, want)
             d == data \o r.p
         IN  /\ rpos' = Consumed(conn, sock, r)
             /\ IF Filled(size, Len(d))
                  THEN /\ NewReader
                       /\ BeginUsbWrite(d)
                       /\ Goto("usbWrite")
                  ELSE /\ data' = d
                       /\ rbuf' = r.buf
                       /\ Goto("netReadData")
                       /\ UNCHANGED <<header, size, usbVars>>
    /\ UNCHANGED <<sem, backlog, conns, conn, script, netOut, scan>>

\* netRead: a Read returns an error before data is full
ReadDataError ==
    /\ pc = "netReadData"
    /\ ReadFails
    /\ NetReadFailed

\* MUTANT of UsbWriteChunk: a failed transfer is skipped and the loop goes on
UsbWriteChunk_SkipOnError ==
    /\ pc = "usbWrite"
    /\ LET d == written[Len(written)]
           mps == dev.endpointOut.maxPacketSize
           sz == Min(Len(d) - offset, mps)
       IN  /\ chunk < ChunkCount(Len(d), mps)
           /\ \E ok \in BOOLEAN :
                /\ usbOut' = IF ok THEN Append(usbOut, SubSeq(d, offset + 1, offset + sz))
                                   ELSE usbOut
                /\ offset' = offset + sz
                /\ chunk' = chunk + 1
                /\ Goto("usbWrite")
    /\ UNCHANGED <<netVars, readVars, dev, handles, claimed, response, respN,
                   written, usbIn, replies, openedFor, scan>>

\* usbWrite: the BulkTransfer of chunk i
UsbWriteChunk ==
    /\ pc = "usbWrite"
    /\ LET d == written[Len(written)]
           mps == dev.endpointOut.maxPacketSize
           sz == Min(Len(d) - offset, mps)
       IN  /\ chunk < ChunkCount(Len(d), mps)
           /\ \E ok \in BOOLEAN :
                IF ok
                  THEN /\ usbOut' = Append(usbOut, SubSeq(d, offset + 1, offset + sz))
                       /\ offset' = offset + sz
                       /\ chunk' = chunk + 1
                       /\ Goto("usbWrite")
                  ELSE /\ Fail("usbWrite")
                       /\ UNCHANGED <<usbOut, offset, chunk>>
    /\ UNCHANGED <<netVars, readVars, dev, handles, claimed, response, respN,
                   written, usbIn, replies, openedFor, scan>>

\* MUTANT of UsbWriteReturn: usbWrite returns before its last chunk
UsbWriteReturn_Early ==
    /\ pc = "usbWrite"
    /\ Goto("usbRead")
    /\ UNCHANGED <<netVars, readVars, usbVars, scan>>

\* usbWrite: i = count, return nil
UsbWriteReturn ==
    /\ pc = "usbWrite"
    /\ chunk >= ChunkCount(Len(written[Len(written)]), dev.endpointOut.maxPacketSize)
    /\ Goto("usbRead")
    /\ UNCHANGED <<netVars, readVars, usbVars, scan>>

\* the bytes the device answers request k with
DeviceBytes(k, n) == [j \in 1..n |-> 100 + 10 * k + j]

\* n, err := usbRead(dev, response): one BulkTransfer into response
UsbRead ==
    /\ pc = "usbRead"
    /\ usbIn' = usbIn + 1
    /\ \E ok \in BOOLEAN, n \in 0..MaxResp :
         IF ok
           THEN /\ response' = [j \in 1..MaxResp |->
                                  IF j <= n THEN DeviceBytes(Len(written), n)[j]
                                            ELSE response[j]]
                /\ respN' = n
                /\ Goto("netWriteHeader")
           ELSE /\ n = 0
                /\ Fail("usbRead")
                /\ UNCHANGED <<response, respN>>
    /\ UNCHANGED <<netVars, readVars, dev, handles, claimed, offset, chunk,
                   written, usbOut, replies, openedFor, scan>>

\* netWrite: conn.Write(header)
WriteHeader ==
    /\ pc = "netWriteHeader"
    /\ \E ok \in BOOLEAN :
         IF ok
           THEN /\ netOut' = [netOut EXCEPT ![conn] = PutUint64(respN)]
                /\ Goto("netWriteData")
                /\ UNCHANGED replies
           ELSE /\ Fail("netWrite")
                /\ UNCHANGED <<netOut, replies>>
    /\ UNCHANGED <<sem, backlog, conns, conn, script, rpos, readVars, dev,
                   handles, claimed, offset, chunk, response, respN, written,
                   usbOut, usbIn, openedFor, scan>>

\* MUTANT of WriteData: the whole response buffer is written
WriteData_WholeBuffer ==
    /\ pc = "netWriteData"
    /\ \E ok \in BOOLEAN :
         IF ok
           THEN /\ netOut' = [netOut EXCEPT ![conn] = @ \o response]
                /\ replies' = replies + 1
                /\ NewReader
                /\ Goto("netReadHeader")
           ELSE /\ Fail("netWrite")
                /\ UNCHANGED <<netOut, readVars, replies>>
    /\ UNCHANGED <<sem, backlog, conns, conn, script, rpos, dev,
                   handles, claimed, offset, chunk, response, respN, written,
                   usbOut, usbIn, openedFor, scan>>

\* netWrite: conn.Write(data) with data = response[0:n]
WriteData ==
    /\ pc = "netWriteData"
    /\ \E ok \in BOOLEAN :
         IF ok
           THEN /\ netOut' = [netOut EXCEPT ![conn] = @ \o Take(response, respN)]
                /\ replies' = replies + 1
                /\ NewReader
                /\ Goto("netReadHeader")
           ELSE /\ Fail("netWrite")
                /\ UNCHANGED <<netOut, readVars, replies>>
    /\ UNCHANGED <<sem, backlog, conns, conn, script, rpos, dev,
                   handles, claimed, offset, chunk, response, respN, written,
                   usbOut, usbIn, openedFor, scan>>

(* ------------------------------ teardown ------------------------------ *)
\* MUTANT of CloseConn: the loop goes back to Accept without usbDeviceClose
CloseConn_NoUsbClose ==
    /\ pc = "connClose"
    /\ ConnClose(conn)
    /\ pc' = "accept"
    /\ UNCHANGED <<exitCause, after, failed, readVars, usbVars, scan>>

\* conn.Close() after the relay loop, then usbDeviceClose(dev)
CloseConn ==
    /\ pc = "connClose"
    /\ ConnClose(conn)
    /\ pc' = "usbRelease"
    /\ after' = "accept"
    /\ UNCHANGED <<exitCause, failed, readVars, usbVars, scan>>

\* usbDeviceClose: dev.handle.ReleaseInterface(0)
ReleaseInterface ==
    /\ pc = "usbRelease"
    /\ claimed' = claimed - 1
    /\ Goto("usbHandleClose")
    /\ UNCHANGED <<netVars, readVars, dev, handles, offset, chunk, response,
                   respN, written, usbOut, usbIn, replies, openedFor, scan>>

\* usbDeviceClose: dev.handle.Close(), and back to the caller
HandleClose ==
    /\ pc = "usbHandleClose"
    /\ handles' = handles - 1
    /\ dev' = NoDev
    /\ pc' = after
    /\ after' = "accept"
    /\ FreshSession
    /\ UNCHANGED <<exitCause, failed, netVars, readVars,
                   claimed, openedFor, scan>>

(* ------------------------------ clients ------------------------------- *)
Listening == pc \notin {"start", "check", "usbRelease", "usbHandleClose", "listen", "exited"}
               \/ (pc \in {"usbRelease", "usbHandleClose"} /\ after = "accept")

\* a client connects: the kernel completes the connection and queues it
\* for Accept, whatever the server is doing
Connect(c) ==
    /\ Listening
    /\ conns[c] = "idle"
    /\ \A b \in Clients : b < c => conns[b] # "idle"
    /\ conns' = [conns EXCEPT ![c] = "queued"]
    /\ backlog' = Append(backlog, c)
    /\ UNCHANGED <<procVars, sem, conn, script, rpos, netOut,
                   readVars, usbVars, scan>>

\* the client decides what it is going to send
ClientBegin(c) ==
    /\ conn = c
    /\ pc = "handshake"
    /\ script[c] = NoScript
    /\ \E s \in Scripts : script' = [script EXCEPT ![c] = s]
    /\ UNCHANGED <<procVars, sem, backlog, conns, conn, rpos, netOut,
                   readVars, usbVars, scan>>

\* a connection main no longer refers to (the `continue` after a failed
\* handshake) may have its descriptor closed by the runtime's finalizer;
\* that is not conn.Close(), and the listener's slot stays taken
Finalize(c) ==
    /\ pc # "exited"
    /\ conns[c] = "accepted"
    /\ conn # c
    /\ conns' = [conns EXCEPT ![c] = "finalized"]
    /\ UNCHANGED <<procVars, sem, backlog, conn, script, rpos,
                   netOut, readVars, usbVars, scan>>

Server ==
    \/ NewContext \/ CheckDevice \/ Listen
    \/ Accept \/ AcceptError
    \/ ReadHandshake \/ ReadHandshakeError
    \/ DeviceOpen \/ DeviceError
    \/ WriteHandshake
    \/ ReadHeader \/ ReadHeaderError \/ ReadData \/ ReadDataError
    \/ UsbWriteChunk \/ UsbWriteReturn
    \/ UsbRead
    \/ WriteHeader \/ WriteData
    \/ CloseConn \/ ReleaseInterface \/ HandleClose

Environment ==
    \E c \in Clients :
      Connect(c) \/ ClientBegin(c) \/ Finalize(c)

Next == Server \/ Environment

Spec == Init /\ [][Next]_vars

(* --------------------- usbDeviceOpen on its own ------------------------ *)
\* One call of usbDeviceOpen on every device list and serial filter: `scan`
\* holds the arguments of the call and, once it has returned, its result.
InitOpen ==
    /\ pc = "scan"
    /\ exitCause = ""
    /\ after = "accept"
    /\ failed = ""
    /\ sem = 0
    /\ backlog = <<>>
    /\ conns = [c \in Clients |-> "idle"]
    /\ conn = NoConn
    /\ script = [c \in Clients |-> NoScript]
    /\ rpos = [c \in Clients |-> 0]
    /\ netOut = [c \in Clients |-> <<>>]
    /\ rbuf = <<>>
    /\ header = <<>>
    /\ size = Size0
    /\ data = <<>>
    /\ dev = NoDev
    /\ handles = 0
    /\ claimed = 0
    /\ offset = 0
    /\ chunk = 0
    /\ response = ZeroResponse
    /\ respN = 0
    /\ written = <<>>
    /\ usbOut = <<>>
    /\ usbIn = 0
    /\ replies = 0
    /\ openedFor = {}
    /\ scan \in { [phase |-> "call", devices |-> ds, serial |-> s,
                   openable |-> {}, result |-> usbDeviceOpen(<<>>, "", {}, TRUE, TRUE)] :
                    ds \in DeviceLists, s \in Serials }

\* dev, err := usbDeviceOpen(serial)
OpenCall ==
    /\ pc = "scan"
    /\ scan.phase = "call"
    /\ \E openable \in SUBSET (1..Len(scan.devices)),
          openOK \in BOOLEAN, claimOK \in BOOLEAN :
         LET r == usbDeviceOpen(scan.devices, scan.serial, openable, openOK, claimOK)
         IN  /\ scan' = [scan EXCEPT !.phase = "returned", !.openable = openable,
                                     !.result = r]
             /\ TakeDevice(r)
             /\ IF r.status = "panic" THEN Exit("panic: index out of range")
                                      ELSE Goto("scan")
    /\ UNCHANGED <<netVars, readVars, offset, chunk, response, respN, written,
                   usbOut, usbIn, replies, openedFor>>

NextOpen == OpenCall

SpecOpen == InitOpen /\ [][NextOpen]_vars

(* ------------------------- usbWrite on its own ------------------------- *)
\* One call usbWrite(dev, data), for every payload of up to MaxData bytes
\* and every bulk OUT packet size of 1..MaxMps, in a session of client 1.
InitWrite ==
    /\ pc = "usbWrite"
    /\ exitCause = ""
    /\ after = "accept"
    /\ failed = ""
    /\ sem = 1
    /\ backlog = <<>>
    /\ conns = [c \in Clients |-> IF c = 1 THEN "accepted" ELSE "idle"]
    /\ conn = 1
    /\ script = [c \in Clients |-> NoScript]
    /\ rpos = [c \in Clients |-> 0]
    /\ netOut = [c \in Clients |-> <<>>]
    /\ rbuf = <<>>
    /\ header = <<>>
    /\ size = Size0
    /\ data = <<>>
    /\ \E mps \in 1..MaxMps :
         dev = [endpointIn |-> EpBulkIn, endpointOut |-> EpBulkOut(mps)]
    /\ handles = 1
    /\ claimed = 1
    /\ offset = 0
    /\ chunk = 0
    /\ response = ZeroResponse
    /\ respN = 0
    /\ \E L \in 0..MaxData : written = <<Payload(1, L)>>
    /\ usbOut = <<>>
    /\ usbIn = 0
    /\ replies = 0
    /\ openedFor = {1}
    /\ scan = NoScan

NextWrite == UsbWriteChunk \/ UsbWriteReturn

SpecWrite == InitWrite /\ [][NextWrite]_vars

(* ------------------- netWrite read back by netRead --------------------- *)
\* the payloads framed: every length up to MaxData, and a full response
\* buffer
FrameLens == (0..MaxData) \cup {ResponseCap}

FramePayload(L) == [j \in 1..L |-> (37 * j) % 256]

\* netWrite(conn, data) for each payload, on the connection of client 1;
\* `scan` keeps the payload framed.
InitFrame ==
    /\ pc = "netWriteHeader"
    /\ exitCause = ""
    /\ after = "accept"
    /\ failed = ""
    /\ sem = 1
    /\ backlog = <<>>
    /\ conns = [c \in Clients |-> IF c = 1 THEN "accepted" ELSE "idle"]
    /\ conn = 1
    /\ script = [c \in Clients |-> NoScript]
    /\ rpos = [c \in Clients |-> 0]
    /\ netOut = [c \in Clients |-> <<>>]
    /\ rbuf = <<>>
    /\ header = <<>>
    /\ size = Size0
    /\ data = <<>>
    /\ dev = [endpointIn |-> EpBulkIn, endpointOut |-> EpBulkOut(1)]
    /\ handles = 1
    /\ claimed = 1
    /\ offset = 0
    /\ chunk = 0
    /\ \E L \in FrameLens :
         /\ response = FramePayload(L)
         /\ respN = L
         /\ scan = [phase |-> "frame", payload |-> FramePayload(L)]
    /\ written = <<>>
    /\ usbOut = <<>>
    /\ usbIn = 0
    /\ replies = 0
    /\ openedFor = {1}

\* the bytes netWrite put on the wire become the stream a netRead call
\* reads, in whatever segments
Loopback ==
    /\ pc = "netReadHeader"
    /\ scan.phase = "frame"
    /\ script[conn] = NoScript
    /\ script' = [script EXCEPT ![conn] =
                    [bytes |-> netOut[conn], frames |-> <<scan.payload>>,
                     wellFormed |-> TRUE]]
    /\ UNCHANGED <<procVars, sem, backlog, conns, conn, rpos, netOut,
                   readVars, usbVars, scan>>

NextFrame ==
    \/ WriteHeader
    \/ WriteData
    \/ Loopback
    \/ (script[conn] # NoScript /\ ReadHeader)
    \/ (script[conn] # NoScript /\ ReadData)

SpecFrame == InitFrame /\ [][NextFrame]_vars

(* ============================== claims ================================ *)
RelayPcs == {"netReadHeader", "netReadData", "usbWrite", "usbRead",
             "netWriteHeader", "netWriteData"}

\* a connection Accept returned that main no longer refers to and has not
\* closed
Dropped(c) == conns[c] \in {"accepted", "finalized"} /\ conn # c

\* s is an initial segment of t
IsPrefix(s, t) == Len(s) <= Len(t) /\ s = Take(t, Len(s))

\* C1: after a handshake failure the bridge goes back to accepting, and the
\* next client that connects is accepted and has its handshake read: when
\* the loop stands at Accept after it dropped a connection whose handshake
\* failed, and a client waits in the backlog, Accept can return that client.
C1_NextClientAccepted ==
    (pc = "accept" /\ backlog # <<>> /\ \E c \in Clients : Dropped(c))
        => ENABLED Accept

\* C2: every failure path of the per-connection body closes the connection
\* before the loop goes on: an accepted connection that has not been closed
\* is the one main is serving.
C2_FailurePathsClose ==
    \A c \in Clients : conns[c] = "accepted" => conn = c

\* C3: a USB session acquired for a client is torn down by usbDeviceClose
\* when the relay loop ends, whichever relay step failed: the connection is
\* closed, then interface 0 is released, then the handle is closed, and all
\* of it before the next Accept.
C3_SessionTornDown ==
    /\ claimed <= handles
    /\ pc = "connClose" => handles = 1 /\ claimed = 1 /\ failed # ""
    /\ (pc = "usbRelease" /\ after = "accept") =>
           handles = 1 /\ claimed = 1 /\ conn = NoConn /\ sem = 0
    /\ pc = "usbHandleClose" => handles = 1 /\ claimed = 0
    /\ pc \in {"accept", "handshake", "devopen"} =>
           handles = 0 /\ claimed = 0 /\ dev = NoDev
    /\ (pc = "accept" /\ failed # "") =>
           /\ conn = NoConn
           /\ sem = 0
           /\ \A c \in Clients : conns[c] # "accepted"

\* C3 witness: a USB write transfer failed, and the loop is back at Accept
\* with the connection closed and the session released
C3_Witness ==
    /\ pc = "accept"
    /\ failed = "usbWrite"
    /\ handles = 0
    /\ claimed = 0
    /\ \E c \in Clients : conns[c] = "closed"

\* C4: at most one USB session and at most one client connection are active
\* at a time; no Accept, handshake read or usbDeviceOpen happens while a
\* session is being served, and the startup check's session is closed before
\* the listener is created.
C4_OneSession ==
    /\ handles <= 1
    /\ claimed <= 1
    /\ sem <= ListenLimit
    /\ Cardinality({ c \in Clients : conns[c] = "accepted" }) <= 1
    /\ pc \in {"accept", "handshake", "devopen", "listen", "check"} => handles = 0
    /\ pc \in RelayPcs \cup {"writeHandshake", "connClose"} =>
           conn # NoConn /\ conns[conn] = "accepted" /\ handles = 1
    /\ handles = 1 /\ after = "listen" => backlog = <<>> /\ conn = NoConn
    /\ \A c \in Clients : conns[c] \in {"idle", "queued"} => c \notin openedFor
    /\ \A c \in openedFor : c # conn => conns[c] = "closed"

\* C4 witness: a session is being served while a second client waits in the
\* listener's backlog
C4_Witness ==
    /\ pc \in RelayPcs
    /\ handles = 1
    /\ backlog # <<>>

\* C5: usbDeviceOpen is called for a connection only after netReadHandshake
\* read 4 bytes that are "FB01" from it; a connection that presents fewer
\* bytes or other bytes never causes a device open.
C5_OpenAfterHandshake ==
    /\ pc = "devopen" =>
           /\ conn # NoConn
           /\ rpos[conn] >= HandshakeLen
           /\ Take(script[conn].bytes, HandshakeLen) = HandshakeToken
    /\ \A c \in openedFor :
           script[c] # NoScript =>
               Take(script[c].bytes, HandshakeLen) = HandshakeToken
    /\ \A c \in Clients : Dropped(c) => c \notin openedFor
    /\ (conn # NoConn /\ handles = 1) => conn \in openedFor

\* C5 witness: the device was opened for a connection that sent "FB01"
C5_Witness ==
    /\ conn # NoConn
    /\ conn \in openedFor
    /\ handles = 1
    /\ Take(script[conn].bytes, HandshakeLen) = HandshakeToken

\* C6: within a session the relay alternates strictly: the k-th request is
\* read in full, then every chunk of it is written to the bulk OUT endpoint,
\* then exactly one bulk IN read is made, then exactly one response frame is
\* written, and only then is the next request read.
C6_Alternation ==
    LET k == Len(written)
    IN  /\ pc \in {"netReadHeader", "netReadData"} =>
               usbIn = k /\ replies = k
        /\ pc = "usbWrite" =>
               /\ k >= 1
               /\ usbIn = k - 1
               /\ replies = k - 1
               /\ Concat(usbOut) = Take(written[k], offset)
        /\ pc = "usbRead" =>
               /\ k >= 1
               /\ usbIn = k - 1
               /\ replies = k - 1
               /\ Concat(usbOut) = written[k]
               /\ Len(usbOut) = ChunkCount(Len(written[k]),
                                           dev.endpointOut.maxPacketSize)
        /\ pc \in {"netWriteHeader", "netWriteData"} =>
               k >= 1 /\ usbIn = k /\ replies = k - 1

\* C6 witness: the second request of a session, written in two chunks, is
\* about to be answered
C6_Witness ==
    /\ pc = "usbRead"
    /\ Len(written) = 2
    /\ Len(usbOut) = 2
    /\ replies = 1

\* C7: the bridge is a transparent pipe for a client that keeps to the
\* framing, however its bytes are segmented: what is handed to the device is
\* the client's payloads, in order.
C7_TransparentPipe ==
    (conn # NoConn /\ script[conn].wellFormed) =>
        IsPrefix(written, script[conn].frames)

\* C8: no failure arising while a client is served is fatal to the process,
\* whatever 8-byte length the client sends: it ends only the session.
C8_SessionFailureNotFatal ==
    (conn # NoConn /\ handles = 1) => pc # "exited"

\* the filter of usbDeviceOpen as the device list shows it: one interface of
\* the fastboot signature with a bulk IN and a bulk OUT endpoint, and the
\* serial number asked for when one is asked for
PassesFilter(ds, i, serial, openable) ==
    /\ ~ds[i].cfgErr
    /\ ds[i].numInterfaces = 1
    /\ ds[i].class = 255 /\ ds[i].subClass = 66 /\ ds[i].protocol = 3
    /\ \E e \in 1..Len(ds[i].endpoints) :
         ds[i].endpoints[e].bulk /\ ds[i].endpoints[e].dir = 1
    /\ \E e \in 1..Len(ds[i].endpoints) :
         ds[i].endpoints[e].bulk /\ ds[i].endpoints[e].dir # 1
    /\ serial # "" => (i \in openable /\ ds[i].serial = serial)

Matching(ds, serial, openable) ==
    { i \in 1..Len(ds) : PassesFilter(ds, i, serial, openable) }

\* C9: usbDeviceOpen returns a device only when exactly one attached device
\* passes the filter; with no such device it fails with "no device found",
\* with two or more with "multiple devices".
C9_ExactlyOneMatch ==
    scan.phase = "returned" =>
        LET n == Cardinality(Matching(scan.devices, scan.serial, scan.openable))
            status == scan.result.status
        IN  /\ status = "ok" => n = 1
            /\ n = 1 => status \in {"ok", "openfail", "claimfail"}
            /\ n = 0 => status = "nodev"
            /\ n >= 2 => status = "multi"

\* C10: the bridge writes to a connection only after usbDeviceOpen has
\* succeeded for it: a connection that something was written to is the one
\* being served, with the device open and its interface claimed; when
\* usbDeviceOpen fails the connection is closed with nothing written.
C10_GreetingAfterOpen ==
    /\ \A c \in Clients :
         netOut[c] # <<>> =>
             /\ c = conn
             /\ c \in openedFor
             /\ dev # NoDev
             /\ handles = 1
             /\ claimed = 1
    /\ pc \in {"handshake", "devopen", "deviceError", "writeHandshake"} =>
           netOut[conn] = <<>>

\* C10 witness: the handshake reply is on a connection whose device is open
C10_Witness ==
    /\ conn # NoConn
    /\ netOut[conn] = HandshakeToken
    /\ handles = 1
    /\ pc = "netReadHeader"

\* the least n with n * M >= L
CeilDiv(L, M) == CHOOSE n \in 0..L : n * M >= L /\ (n = 0 \/ (n - 1) * M < L)

\* C11: for a payload of L bytes and a packet size M > 0, usbWrite issues
\* exactly ceil(L / M) bulk OUT transfers (none when L = 0), in order, each of
\* 1..M bytes, and the chunks put together are the payload.
C11_ChunkedWrite ==
    (written # <<>> /\ pc \in {"usbWrite", "usbRead"}) =>
        LET d == written[Len(written)]
            M == dev.endpointOut.maxPacketSize
        IN  /\ \A i \in 1..Len(usbOut) : Len(usbOut[i]) \in 1..M
            /\ Concat(usbOut) = Take(d, offset)
            /\ Len(usbOut) <= CeilDiv(Len(d), M)
            /\ pc = "usbRead" =>
                   /\ Len(usbOut) = CeilDiv(Len(d), M)
                   /\ Concat(usbOut) = d

\* C11 witness: usbWrite returned after sending 3 bytes as a full chunk of 2
\* and a last chunk of 1
C11_Witness ==
    /\ pc = "usbRead"
    /\ dev.endpointOut.maxPacketSize = 2
    /\ Len(written[1]) = 3
    /\ Len(usbOut) = 2
    /\ Len(usbOut[2]) = 1

\* C12: frame round trip: the bytes netWrite produces for a payload (8-byte
\* big-endian length, then the payload) are decoded by netRead into the same
\* length and the same payload bytes.
C12_FrameRoundTrip ==
    scan.phase = "frame" =>
        /\ pc # "exited"
        /\ script[conn] # NoScript =>
               script[conn].bytes =
                   <<0, 0, 0, 0, 0, 0, Len(scan.payload) \div 256,
                     Len(scan.payload) % 256>> \o scan.payload
        /\ pc = "netReadData" =>
               /\ size = [hi |-> 0, mid |-> 0, lo |-> Len(scan.payload)]
               /\ IsPrefix(data, scan.payload)
        /\ pc = "usbWrite" => written = <<scan.payload>>

\* C12 witness: a payload of 256 bytes came back from netRead
C12_Witness ==
    /\ scan.phase = "frame"
    /\ pc = "usbWrite"
    /\ Len(written[1]) = ResponseCap
    /\ written[1] = scan.payload

\* C13: a failed device acquisition (no match, several matches, open or claim
\* failure) ends only the current connection: it is closed with no relay step
\* executed and no USB session left, and the usbDeviceOpen call made for a
\* later client starts afresh and can succeed.
C13_DeviceFailureLocal ==
    /\ pc = "deviceError" =>
           /\ conn # NoConn
           /\ conns[conn] = "accepted"
           /\ handles = 0 /\ claimed = 0 /\ dev = NoDev
           /\ written = <<>> /\ usbOut = <<>> /\ usbIn = 0 /\ replies = 0
           /\ netOut[conn] = <<>>
    /\ (pc = "accept" /\ failed = "usbDeviceOpen") =>
           /\ conn = NoConn
           /\ sem = 0
           /\ \A c \in Clients : conns[c] # "accepted"
           /\ handles = 0 /\ claimed = 0 /\ dev = NoDev
           /\ written = <<>> /\ usbOut = <<>> /\ usbIn = 0 /\ replies = 0
           /\ backlog # <<>> => ENABLED Accept
    /\ pc = "devopen" =>
           /\ handles = 0 /\ claimed = 0
           /\ ENABLED (DeviceOpen /\ handles' = 1 /\ claimed' = 1)

\* C13 witness: the first client's device acquisition failed, its connection
\* is closed, and the next client waits to be accepted
C13_Witness ==
    /\ pc = "accept"
    /\ failed = "usbDeviceOpen"
    /\ conns[1] = "closed"
    /\ backlog = <<2>>
    /\ handles = 0

RelayFailures == {"netRead", "usbWrite", "usbRead", "netWrite"}

\* C14: once a relay step of a session has failed, no further relay step of
\* that session is executed and the failed step is not retried: the loop is
\* left for the teardown, with the transfers and frames counted as they were
\* when the step failed.
C14_NoStepAfterFailure ==
    /\ failed \in RelayFailures =>
           pc \in {"connClose", "usbRelease", "usbHandleClose", "accept", "exited"}
    /\ (failed \in RelayFailures /\ pc \in {"connClose", "usbRelease", "usbHandleClose"}) =>
           LET k == Len(written)
           IN  /\ failed = "netRead" => usbIn = k /\ replies = k
               /\ failed = "usbWrite" =>
                      /\ k >= 1
                      /\ usbIn = k - 1
                      /\ replies = k - 1
                      /\ Len(usbOut) = chunk
                      /\ chunk < ChunkCount(Len(written[k]),
                                            dev.endpointOut.maxPacketSize)
               /\ failed = "usbRead" => k >= 1 /\ usbIn = k /\ replies = k - 1
               /\ failed = "netWrite" => k >= 1 /\ usbIn = k /\ replies = k - 1

\* C14 witness: the bulk IN read of a session's second request failed and the
\* loop was left
C14_Witness ==
    /\ pc = "connClose"
    /\ failed = "usbRead"
    /\ Len(written) = 2
    /\ replies = 1

\* the 8-byte big-endian encoding of a length below 2^16
BigEndian8(n) == <<0, 0, 0, 0, 0, 0, n \div 256, n % 256>>

\* C15: for every request whose USB write succeeded the bridge issues exactly
\* one bulk IN transfer and writes exactly one response frame, whose payload
\* is the n bytes that transfer returned (0 <= n <= 256); bytes a longer,
\* earlier response left in the buffer are not in it.
C15_ResponseIsTransfer ==
    LET k == Len(written)
    IN  /\ pc \in {"netWriteHeader", "netWriteData"} =>
               /\ usbIn = k
               /\ replies = k - 1
               /\ respN \in 0..ResponseCap
               /\ Take(response, respN) = DeviceBytes(k, respN)
        /\ pc = "netWriteData" => netOut[conn] = BigEndian8(respN)
        /\ (pc \in {"netReadHeader", "netReadData"} /\ replies >= 1) =>
               /\ usbIn = k
               /\ replies = k
               /\ netOut[conn] = BigEndian8(respN) \o DeviceBytes(k, respN)

\* C15 witness: the second response of a session is empty while the buffer
\* still holds the byte of the first
C15_Witness ==
    /\ pc = "netReadHeader"
    /\ replies = 2
    /\ respN = 0
    /\ response # ZeroResponse
    /\ netOut[conn] = BigEndian8(0)

\* C16: usbWrite fails fast: when the transfer of chunk i returns an error,
\* usbWrite returns the error at once; the chunks after i are never sent and
\* chunk i is not sent again.
C16_WriteFailsFast ==
    written # <<>> =>
        LET d == written[Len(written)]
            M == dev.endpointOut.maxPacketSize
        IN  /\ pc \in {"usbWrite", "usbRead"} =>
                   /\ failed = ""
                   /\ Len(usbOut) = chunk
            /\ (failed = "usbWrite" /\ pc = "connClose") =>
                   /\ Len(usbOut) = chunk
                   /\ chunk < CeilDiv(Len(d), M)
                   /\ offset < Len(d)
                   /\ Concat(usbOut) = Take(d, offset)
                   /\ usbIn = Len(written) - 1

\* C16 witness: of a payload of three chunks the second transfer failed, and
\* usbWrite returned with one chunk sent
C16_Witness ==
    /\ pc = "connClose"
    /\ failed = "usbWrite"
    /\ Len(usbOut) = 1
    /\ ChunkCount(Len(written[1]), dev.endpointOut.maxPacketSize) = 3

\* C17: usbDeviceOpen takes a device as a candidate only if its active
\* configuration has exactly one interface: a device with any other number of
\* interfaces (none, or two and more) is skipped, neither counted nor shown,
\* and the scan goes on to the devices after it.
C17_OneInterfaceOnly ==
    scan.phase = "returned" =>
        /\ scan.result.status # "panic"
        /\ \A j \in 1..Len(scan.result.shown) :
             scan.devices[scan.result.shown[j]].numInterfaces = 1
        /\ scan.result.deviceCount =
             Cardinality(Matching(scan.devices, scan.serial, scan.openable))

\* device i of the list passes the interface-signature filter
PassesSignature(ds, i) ==
    /\ ~ds[i].cfgErr
    /\ ds[i].numInterfaces = 1
    /\ ds[i].class = 255 /\ ds[i].subClass = 66 /\ ds[i].protocol = 3

\* the devices a scan reaches: all of them, or those before the first device
\* without interfaces
Reached(ds) ==
    { i \in 1..Len(ds) :
        \A j \in 1..(i - 1) : ds[j].cfgErr \/ ds[j].numInterfaces # 0 }

\* the members of a set of numbers, in increasing order
InOrder(S) ==
    LET upTo[n \in 0..Cardinality(S)] ==
          IF n = 0 THEN <<>>
          ELSE Append(upTo[n - 1],
                      CHOOSE x \in S :
                        Cardinality({ y \in S : y < x }) = n - 1)
    IN  upTo[Cardinality(S)]

\* C18 as stated: during a scan every device that passes the
\* interface-signature filter is logged, whether or not it then passes the
\* bulk-endpoint and serial-number filters.
C18_SignatureLogged ==
    (scan.phase = "returned" /\ scan.result.status # "panic") =>
        \A i \in 1..Len(scan.devices) :
            PassesSignature(scan.devices, i) =>
                \E j \in 1..Len(scan.result.shown) : scan.result.shown[j] = i

\* C18, amended: during a scan the devices logged are exactly the devices
\* reached that pass all the filters (signature, bulk endpoints, serial
\* number when one is given), each once and in scan order; a device that
\* passes the signature filter and fails a later one is not logged.
C18_MatchesLogged ==
    scan.phase = "returned" =>
        scan.result.shown =
            InOrder({ i \in Reached(scan.devices) :
                        PassesFilter(scan.devices, i, scan.serial, scan.openable) })

\* C18 witness: a scan logged the one matching device and did not log a
\* device that passes the signature filter but has no bulk IN endpoint
C18_Witness ==
    /\ scan.phase = "returned"
    /\ Len(scan.result.shown) = 1
    /\ \E i \in 1..Len(scan.devices) :
         /\ PassesSignature(scan.devices, i)
         /\ ~PassesFilter(scan.devices, i, scan.serial, scan.openable)
         /\ scan.result.shown[1] # i

C20_HandshakeWriteIgnored ==
    /\ (pc \in RelayPcs /\ replies = 0 /\ netOut[conn] = <<>>) =>
           /\ conns[conn] = "accepted"
           /\ handles = 1
           /\ claimed = 1
           /\ failed = ""
           /\ pc = "usbRead" => Concat(usbOut) = written[Len(written)]
    /\ pc = "connClose" => failed \in RelayFailures

\* C20 witness: the handshake reply was not written, and the first frame read
\* from the connection has been written to the device
C20_Witness ==
    /\ pc = "usbRead"
    /\ replies = 0
    /\ netOut[conn] = <<>>
    /\ usbOut # <<>>
    /\ Concat(usbOut) = written[1]

====
